---- MODULE Spec2Model ----
(***************************************************************************)
(* The crossword constraint-satisfaction solver of                         *)
(* week3/optmize/crossword/crossword/generate.py (class CrosswordCreator): *)
(* node consistency, AC-3 and heuristic backtracking search, as one state  *)
(* machine that follows one call of solve().                               *)
(*                                                                         *)
(* A word is a sequence of letters.  Python offsets are 0-based, so the    *)
(* character w[i] of the source is w[i + 1] here.  A dict is modelled in   *)
(* insertion order where the code iterates over it (assignment), a set by  *)
(* a set, and an iteration over a set by an arbitrary order of it.         *)
(***************************************************************************)
EXTENDS Integers, Sequences, FiniteSets, TLC

\* ------------------------------------------------------------------ bounds

\* The largest word pool (crossword.words) a puzzle is solved with.
MaxPool == 3

\* The largest height and the largest width of a Minesweeper board.
MaxSide == 2

\* The number of sentences in the AI's knowledge from which no further
\* add_knowledge call is made.
MaxKnowledge == 3

\* Every word a pool may hold: words of two and of three letters.
Vocabulary ==
    { << "a", "b", "a" >>, << "b", "a", "b" >>, << "a", "a", "b" >>,
      << "b", "a", "a" >>, << "a", "b", "b" >>,
      << "a", "b" >>, << "b", "a" >> }

\* ------------------------------------------------------- the puzzle model

Slot(i, j, direction, length) ==
    [i |-> i, j |-> j, direction |-> direction, length |-> length]

\* Variable.cells: the grid cells a slot covers, first to last.
Cells(var) ==
    [k \in 1..var.length |->
        << var.i + (IF var.direction = "down" THEN k - 1 ELSE 0),
           var.j + (IF var.direction = "across" THEN k - 1 ELSE 0) >>]

\* The absent overlap (None).
None == << >>

\* The 0-based offsets (i, j) of the cell x and y share, or None.
SharedCell(x, y) ==
    LET cx == Cells(x)
        cy == Cells(y)
        shared == {p \in (1..x.length) \X (1..y.length) : cx[p[1]] = cy[p[2]]}
    IN  IF shared = {} THEN None
        ELSE LET p == CHOOSE q \in shared : TRUE IN << p[1] - 1, p[2] - 1 >>

\* The structures solved: one slot; two crossing slots; two slots that do not
\* touch; a chain of three; two down slots joined by an across slot; no slot.
OneSlot == {Slot(0, 0, "across", 3)}

Cross == {Slot(0, 0, "across", 3), Slot(0, 1, "down", 3)}

Apart == {Slot(0, 0, "across", 3), Slot(2, 0, "across", 2)}

Chain == {Slot(0, 0, "across", 3), Slot(0, 2, "down", 3), Slot(2, 2, "across", 2)}

Bridge == {Slot(0, 0, "down", 3), Slot(0, 2, "down", 3), Slot(1, 0, "across", 3)}

Puzzles == {OneSlot, Cross, Apart, Chain, Bridge, {}}

\* ------------------------------------------------------------------ state

VARIABLES
    crossword,   \* [variables, words, overlaps]: slots, word pool, overlaps
    order,       \* the iteration order of the set crossword.variables
    domains,     \* self.domains: slot -> set of candidate words
    queue,       \* ac3's work queue of arcs << x, y >>
    ac3Result,   \* what ac3 returned: "pending", "True" or "False"
    assignment,  \* the dict backtrack works on, in insertion order
    stack,       \* the active backtrack calls: [var, values, idx, entry]
    result,      \* what solve returned: "pending", "None" or "assignment"
    pc,          \* where solve() is
    steps,       \* the steps backtrack has taken: calls begun, values tried, returns
    call,        \* the last method called directly on the solver, and its value
    game,        \* the Minesweeper board: [height, width, mines]
    ai,          \* the MinesweeperAI: [moves_made, mines, safes, knowledge]
    move         \* what make_random_move returned last

vars == << crossword, order, domains, queue, ac3Result, assignment, stack,
           result, pc, steps, call, game, ai, move >>

\* What a run of solve() leaves alone: the direct calls and the other program.
rest == << call, game, ai, move >>

\* No method has been called directly.
NoCall == [op |-> "none", x |-> << >>, y |-> << >>, asg |-> << >>, returned |-> "none"]

\* make_random_move has not been called since the AI last learned something.
NoMove == [returned |-> "none", cell |-> << >>]

\* MinesweeperAI.__init__: no move made, nothing known.
NewAI == [moves_made |-> {}, mines |-> {}, safes |-> {}, knowledge |-> << >>]

\* No Minesweeper game is played.
NoGame ==
    /\ game = [height |-> 0, width |-> 0, mines |-> {}]
    /\ ai = NewAI
    /\ move = NoMove

\* Crossword.overlaps, computed once when the puzzle is built: an entry for
\* every ordered pair of distinct slots.
Overlaps(variables) ==
    [a \in {b \in variables \X variables : b[1] # b[2]} |-> SharedCell(a[1], a[2])]

\* crossword.overlaps.get((x, y)): None also for a pair that has no entry.
Overlap(x, y) ==
    IF << x, y >> \in DOMAIN crossword.overlaps
    THEN crossword.overlaps[<< x, y >>]
    ELSE None

\* Crossword.neighbors(var)
Neighbors(var) ==
    {v \in crossword.variables : v # var /\ Overlap(v, var) # None}

\* The orders a set can be iterated in.
Orderings(S) ==
    {s \in [1..Cardinality(S) -> S] : \A a, b \in DOMAIN s : a # b => s[a] # s[b]}

\* CrosswordCreator.__init__: every slot starts with a copy of the pool.
Init ==
    /\ \E p \in Puzzles, ws \in SUBSET Vocabulary :
          /\ Cardinality(ws) <= MaxPool
          /\ crossword = [variables |-> p, words |-> ws, overlaps |-> Overlaps(p)]
    /\ order \in Orderings(crossword.variables)
    /\ domains = [var \in crossword.variables |-> crossword.words]
    /\ queue = << >>
    /\ ac3Result = "pending"
    /\ assignment = << >>
    /\ stack = << >>
    /\ result = "pending"
    /\ pc = "enforce_node_consistency"
    /\ steps = 0
    /\ call = NoCall
    /\ NoGame

\* ------------------------------------------------------- node consistency

\* A variant that removes only the words that are too long.
NodeConsistentKeepsShort(doms) ==
    [variable \in DOMAIN doms |->
        doms[variable] \ {word \in doms[variable] : Len(word) > variable.length}]

\* enforce_node_consistency on the domains doms.
NodeConsistent(doms) ==
    [variable \in DOMAIN doms |->
        LET lenght == variable.length
            invalid_words == {word \in doms[variable] : Len(word) # lenght}
        IN  doms[variable] \ invalid_words]

EnforceNodeConsistency ==
    /\ pc = "enforce_node_consistency"
    /\ domains' = NodeConsistent(domains)
    /\ pc' = "ac3"
    /\ UNCHANGED << crossword, order, queue, ac3Result, assignment, stack, result >>
    /\ UNCHANGED << steps, rest >>

\* ------------------------------------------------------- arc consistency

\* A variant that reads both words at x's offset.
UnsupportedSameOffset(doms, x, y) ==
    LET i == Overlap(x, y)[1]
    IN  {wx \in doms[x] :
            ~ \E wy \in doms[y] :
                i < Len(wx) /\ i < Len(wy) /\ wx[i + 1] = wy[i + 1]}

\* revise: the words of doms[x] with no partner in doms[y] at the overlap.
Unsupported(doms, x, y) ==
    LET overlap == Overlap(x, y)
        i == overlap[1]
        j == overlap[2]
    IN  {wx \in doms[x] :
            ~ \E wy \in doms[y] :
                i < Len(wx) /\ j < Len(wy) /\ wx[i + 1] = wy[j + 1]}

\* A variant that rebuilds x's domain from the word pool.
ReviseFromPool(doms, x, y) ==
    IF << x, y >> \notin DOMAIN crossword.overlaps \/ Overlap(x, y) = None
    THEN [domains |-> doms, revise |-> FALSE]
    ELSE LET remove == Unsupported(doms, x, y)
         IN  IF remove # {}
             THEN [domains |-> [doms EXCEPT ![x] = crossword.words \ remove],
                   revise |-> TRUE]
             ELSE [domains |-> doms, revise |-> FALSE]

\* A variant that reports a revision whenever the slots overlap.
ReviseAlwaysReports(doms, x, y) ==
    IF << x, y >> \notin DOMAIN crossword.overlaps \/ Overlap(x, y) = None
    THEN [domains |-> doms, revise |-> FALSE]
    ELSE [domains |-> [doms EXCEPT ![x] = doms[x] \ Unsupported(doms, x, y)],
          revise |-> TRUE]

\* A variant that also drops the words of y that lost their partner in x.
ReviseBothEnds(doms, x, y) ==
    IF << x, y >> \notin DOMAIN crossword.overlaps \/ Overlap(x, y) = None
    THEN [domains |-> doms, revise |-> FALSE]
    ELSE LET remove == Unsupported(doms, x, y)
             shrunk == [doms EXCEPT ![x] = doms[x] \ remove]
         IN  IF remove # {}
             THEN [domains |-> [shrunk EXCEPT ![y] = doms[y] \ Unsupported(shrunk, y, x)],
                   revise |-> TRUE]
             ELSE [domains |-> doms, revise |-> FALSE]

\* revise(x, y) on the domains doms: the new domains and the value returned.
Revise(doms, x, y) ==
    IF << x, y >> \notin DOMAIN crossword.overlaps \/ Overlap(x, y) = None
    THEN [domains |-> doms, revise |-> FALSE]
    ELSE LET remove == Unsupported(doms, x, y)
         IN  IF remove # {}
             THEN [domains |-> [doms EXCEPT ![x] = doms[x] \ remove],
                   revise |-> TRUE]
             ELSE [domains |-> doms, revise |-> FALSE]

\* ac3's seed when arcs is None: the nested loop over self.domains keeps the
\* ordered pairs of distinct slots that overlap.
InitialArcs ==
    LET n == Len(order)
        pairs == [k \in 1..(n * n) |->
                    << order[((k - 1) \div n) + 1], order[((k - 1) % n) + 1] >>]
        isArc(a) == a[1] # a[2] /\ Overlap(a[1], a[2]) # None
    IN  SelectSeq(pairs, isArc)

\* A variant that puts no arc back.
RequeuedNothing(x, y) == {}

\* A variant that takes the neighbours of y.
RequeuedAroundY(x, y) == {z \in Neighbors(y) : z # x}

\* ac3, lines 179-181: the slots z whose arc (z, x) goes back on the queue
\* after revise(x, y) shrank the domain of x.
Requeued(x, y) == {z \in Neighbors(x) : z # y}

\* ac3, lines 162-170: build the queue.
Ac3Begin ==
    /\ pc = "ac3"
    /\ queue' = InitialArcs
    /\ pc' = "ac3_loop"
    /\ UNCHANGED << crossword, order, domains, ac3Result, assignment, stack, result >>
    /\ UNCHANGED << steps, rest >>

\* ac3, lines 172-181: one iteration of the while loop.  solve() discards
\* the value ac3 returns and goes on to backtrack(dict()).
Ac3Iterate ==
    /\ pc = "ac3_loop"
    /\ queue # << >>
    /\ LET x == Head(queue)[1]
           y == Head(queue)[2]
           r == Revise(domains, x, y)
       IN  /\ domains' = r.domains
           /\ IF r.revise
              THEN IF r.domains[x] = {}
                   THEN /\ ac3Result' = "False"
                        /\ queue' = << >>
                        /\ pc' = "backtrack"
                   ELSE /\ \E zs \in Orderings(Requeued(x, y)) :
                              queue' = Tail(queue) \o [m \in DOMAIN zs |-> << zs[m], x >>]
                        /\ UNCHANGED << ac3Result, pc >>
              ELSE /\ queue' = Tail(queue)
                   /\ UNCHANGED << ac3Result, pc >>
    /\ UNCHANGED << crossword, order, assignment, stack, result >>
    /\ UNCHANGED << steps, rest >>

\* ac3, line 183: the queue has drained.
Ac3ReturnTrue ==
    /\ pc = "ac3_loop"
    /\ queue = << >>
    /\ ac3Result' = "True"
    /\ pc' = "backtrack"
    /\ UNCHANGED << crossword, order, domains, queue, assignment, stack, result >>
    /\ UNCHANGED << steps, rest >>

\* ------------------------------------------------------------------ search

\* The slots an assignment (a sequence of [var, word] in insertion order) has.
Assigned(asg) == {asg[k].var : k \in DOMAIN asg}

\* assignment[var]
WordOf(asg, var) == asg[CHOOSE k \in DOMAIN asg : asg[k].var = var].word

\* consistent, lines 214-223, for the k-th entry: the assigned neighbours
\* whose comparison does not pass, each with what it does ("False" for a
\* different letter, "IndexError" for an offset past the end of a word).
Conflicts(asg, k) ==
    LET var == asg[k].var
        word == asg[k].word
        compare(neighbor) ==
            LET overlap == Overlap(var, neighbor)
                i == overlap[1]
                j == overlap[2]
                other == WordOf(asg, neighbor)
            IN  IF i >= Len(word) \/ j >= Len(other) THEN "IndexError"
                ELSE IF word[i + 1] # other[j + 1] THEN "False"
                ELSE "pass"
    IN  {compare(neighbor) : neighbor \in Neighbors(var) \cap Assigned(asg)} \ {"pass"}

\* A variant that records the word as used before looking for it.
EntryOutcomesSelfDuplicate(asg, k) ==
    IF \E m \in 1..k : asg[m].word = asg[k].word THEN {"False"}
    ELSE IF Len(asg[k].word) # asg[k].var.length THEN {"False"}
    ELSE Conflicts(asg, k)

\* consistent, lines 205-223, for the k-th entry: the ways the loop body can
\* leave the function, none if it goes on to the next entry.  The neighbours
\* are a set, so any of the failing comparisons may come first.
EntryOutcomes(asg, k) ==
    IF \E m \in 1..(k - 1) : asg[m].word = asg[k].word THEN {"False"}
    ELSE IF Len(asg[k].word) # asg[k].var.length THEN {"False"}
    ELSE Conflicts(asg, k)

\* consistent(assignment): the values it can return ("True", "False") or the
\* exception it can raise ("IndexError").
Consistent(asg) ==
    LET stops == {k \in DOMAIN asg : EntryOutcomes(asg, k) # {}}
    IN  IF stops = {} THEN {"True"}
        ELSE EntryOutcomes(asg, CHOOSE k \in stops : \A m \in stops : k <= m)

\* A variant that sorts by (domain size, degree): ties go to the least degree.
SelectLeastDegree(asg) ==
    LET unassigned == SelectSeq(order, LAMBDA v : v \notin Assigned(asg))
        num_values(v) == Cardinality(domains[v])
        num_neighbors(v) == Cardinality(Neighbors(v))
        before(a, b) ==
            \/ num_values(a) < num_values(b)
            \/ num_values(a) = num_values(b) /\ num_neighbors(a) < num_neighbors(b)
        first == CHOOSE k \in DOMAIN unassigned :
                    /\ \A m \in DOMAIN unassigned : ~ before(unassigned[m], unassigned[k])
                    /\ \A m \in 1..(k - 1) : before(unassigned[k], unassigned[m])
    IN  unassigned[first]

\* select_unassigned_variable: the first slot, in iteration order, of those
\* with the least (domain size, -degree); the sort is stable.
SelectUnassignedVariable(asg) ==
    LET unassigned == SelectSeq(order, LAMBDA v : v \notin Assigned(asg))
        num_values(v) == Cardinality(domains[v])
        num_neighbors(v) == Cardinality(Neighbors(v))
        before(a, b) ==
            \/ num_values(a) < num_values(b)
            \/ num_values(a) = num_values(b) /\ num_neighbors(a) > num_neighbors(b)
        first == CHOOSE k \in DOMAIN unassigned :
                    /\ \A m \in DOMAIN unassigned : ~ before(unassigned[m], unassigned[k])
                    /\ \A m \in 1..(k - 1) : before(unassigned[k], unassigned[m])
    IN  unassigned[first]

\* A variant that counts the neighbour values left standing.
ElimCountLeftStanding(var, asg, value) ==
    LET left(neighbor) ==
            {n_value \in domains[neighbor] :
                Consistent(<< [var |-> var, word |-> value],
                              [var |-> neighbor, word |-> n_value] >>) = {"True"}}
        open == {neighbor \in Neighbors(var) : neighbor \notin Assigned(asg)}
        Sum[S \in SUBSET open] ==
            IF S = {} THEN 0
            ELSE LET n == CHOOSE n \in S : TRUE
                 IN  Cardinality(left(n)) + Sum[S \ {n}]
    IN  Sum[open]

\* order_domain_values, lines 235-241: elim_count[value].
ElimCount(var, asg, value) ==
    LET ruled_out(neighbor) ==
            {n_value \in domains[neighbor] :
                Consistent(<< [var |-> var, word |-> value],
                              [var |-> neighbor, word |-> n_value] >>) # {"True"}}
        open == {neighbor \in Neighbors(var) : neighbor \notin Assigned(asg)}
        Sum[S \in SUBSET open] ==
            IF S = {} THEN 0
            ELSE LET n == CHOOSE n \in S : TRUE
                 IN  Cardinality(ruled_out(n)) + Sum[S \ {n}]
    IN  Sum[open]

\* order_domain_values raises when a consistent call inside it does.
OrderRaises(var, asg) ==
    \E value \in domains[var], neighbor \in Neighbors(var) \ Assigned(asg) :
        \E n_value \in domains[neighbor] :
            "IndexError" \in Consistent(<< [var |-> var, word |-> value],
                                           [var |-> neighbor, word |-> n_value] >>)

\* order_domain_values: the lists it can return, the domain sorted by
\* elim_count, words of equal count in the set's iteration order.
OrderDomainValues(var, asg) ==
    LET elim_count == [value \in domains[var] |-> ElimCount(var, asg, value)]
    IN  {values \in Orderings(domains[var]) :
            \A a, b \in DOMAIN values :
                a < b => elim_count[values[a]] <= elim_count[values[b]]}

\* A variant that stops one entry early.
CompleteOffByOne(asg) == Len(asg) + 1 >= Cardinality(crossword.variables)

\* backtrack, line 280: the assignment has an entry for every slot.
Complete(asg) == Len(asg) = Cardinality(crossword.variables)

\* A variant that goes deeper whatever consistent returned.
AcceptsUnchecked(outcome) == outcome # "IndexError"

\* backtrack, line 286: the test that lets the search go deeper.
Accepts(outcome) == outcome = "True"

\* A variant that leaves the tentative entry in place.
UndoneNot(asg) == asg

\* backtrack, line 290: del assignment[var] removes the entry added last.
Undone(asg) == SubSeq(asg, 1, Len(asg) - 1)

\* A variant that stays on the same value.
NextValueStuck(idx) == idx

\* backtrack, line 283: the for loop moves on to the next value of the list.
NextValue(idx) == idx + 1

\* solve, line 94: backtrack(dict()) is called whatever ac3 returned.
SolveCallsBacktrack ==
    /\ pc = "backtrack"
    /\ assignment' = << >>
    /\ pc' = "call"
    /\ UNCHANGED << crossword, order, domains, queue, ac3Result, stack, result >>
    /\ UNCHANGED << steps, rest >>

\* backtrack, lines 280-283: a call begins.  A complete assignment is
\* returned, through every caller (lines 288-289), as solve's result.
BacktrackEnter ==
    /\ pc = "call"
    /\ IF Complete(assignment)
       THEN /\ result' = "assignment"
            /\ stack' = << >>
            /\ pc' = "done"
       ELSE LET var == SelectUnassignedVariable(assignment)
            IN  IF OrderRaises(var, assignment)
                THEN /\ pc' = "raised"
                     /\ UNCHANGED << stack, result >>
                ELSE /\ \E values \in OrderDomainValues(var, assignment) :
                           stack' = Append(stack, [var |-> var, values |-> values,
                                                   idx |-> 1, entry |-> assignment])
                     /\ pc' = "loop"
                     /\ UNCHANGED result
    /\ UNCHANGED << crossword, order, domains, queue, ac3Result, assignment >>
    /\ steps' = steps + 1
    /\ UNCHANGED rest

\* A variant in which the search takes each value it tries out of the
\* slot's domain.
DomainsAfterTryPruned(doms, var, value) == [doms EXCEPT ![var] = @ \ {value}]

\* self.domains after the loop body has tried value for var (lines 284-290):
\* the body writes to assignment and to nothing else, and the list it walks
\* is the copy sorted() made.
DomainsAfterTry(doms, var, value) == doms

\* backtrack, lines 283-290: the next value is tried; a consistent one leads
\* to the recursive call, another is removed again.
BacktrackTry ==
    /\ pc = "loop"
    /\ LET frame == stack[Len(stack)]
       IN  /\ frame.idx <= Len(frame.values)
           /\ LET tried == Append(assignment,
                                  [var |-> frame.var, word |-> frame.values[frame.idx]])
              IN  \E outcome \in Consistent(tried) :
                     IF Accepts(outcome)
                     THEN /\ assignment' = tried
                          /\ pc' = "call"
                          /\ UNCHANGED stack
                     ELSE IF outcome = "False"
                     THEN /\ assignment' = Undone(tried)
                          /\ stack' = [stack EXCEPT ![Len(stack)].idx = NextValue(frame.idx)]
                          /\ UNCHANGED pc
                     ELSE /\ assignment' = tried
                          /\ pc' = "raised"
                          /\ UNCHANGED stack
           /\ domains' = DomainsAfterTry(domains, frame.var, frame.values[frame.idx])
    /\ UNCHANGED << crossword, order, queue, ac3Result, result >>
    /\ steps' = steps + 1
    /\ UNCHANGED rest

\* backtrack, line 292: the values are used up and the call returns None; its
\* caller (lines 288-290) removes its own tentative entry and goes on, and
\* solve returns None when there is no caller.
BacktrackReturnNone ==
    /\ pc = "loop"
    /\ stack[Len(stack)].idx > Len(stack[Len(stack)].values)
    /\ LET callers == SubSeq(stack, 1, Len(stack) - 1)
       IN  IF callers = << >>
           THEN /\ stack' = callers
                /\ result' = "None"
                /\ pc' = "done"
                /\ UNCHANGED assignment
           ELSE /\ stack' = [callers EXCEPT ![Len(callers)].idx = NextValue(@)]
                /\ assignment' = Undone(assignment)
                /\ UNCHANGED << result, pc >>
    /\ UNCHANGED << crossword, order, domains, queue, ac3Result >>
    /\ steps' = steps + 1
    /\ UNCHANGED rest

Next ==
    \/ EnforceNodeConsistency
    \/ Ac3Begin
    \/ Ac3Iterate
    \/ Ac3ReturnTrue
    \/ SolveCallsBacktrack
    \/ BacktrackEnter
    \/ BacktrackTry
    \/ BacktrackReturnNone

Spec == Init /\ [][Next]_vars

\* solve() is one uninterrupted synchronous call: a step that can be taken is
\* taken.
FairSpec == Spec /\ WF_vars(Next)

\* ----------------------------------------------------------- direct calls
\* The methods of CrosswordCreator called one by one, in any order, on a newly
\* built solver: the domains then still hold words of every length.  None of
\* the methods called reads the iteration order of the slots, so one is taken.

CallInit ==
    /\ \E p \in Puzzles, ws \in SUBSET Vocabulary :
          /\ Cardinality(ws) <= MaxPool
          /\ crossword = [variables |-> p, words |-> ws, overlaps |-> Overlaps(p)]
    /\ order = CHOOSE o \in Orderings(crossword.variables) : TRUE
    /\ domains = [var \in crossword.variables |-> crossword.words]
    /\ queue = << >>
    /\ ac3Result = "pending"
    /\ assignment = << >>
    /\ stack = << >>
    /\ result = "pending"
    /\ pc = "direct"
    /\ steps = 0
    /\ call = NoCall
    /\ NoGame

\* The Python value of a test.
Bool(b) == IF b THEN "True" ELSE "False"

\* The assignments consistent can be given: pool words for some of the
\* slots, in any insertion order.
PartialAssignments ==
    LET entries == [var : crossword.variables, word : crossword.words]
    IN  {asg \in UNION {[1..n -> entries] : n \in 0..Cardinality(crossword.variables)} :
            \A a, b \in DOMAIN asg : a # b => asg[a].var # asg[b].var}

\* enforce_node_consistency()
CallEnforceNodeConsistency ==
    /\ pc = "direct"
    /\ domains' = NodeConsistent(domains)
    /\ call' = [NoCall EXCEPT !.op = "enforce_node_consistency", !.returned = "None"]
    /\ UNCHANGED << crossword, order, queue, ac3Result, assignment, stack, result, pc >>
    /\ UNCHANGED << steps, game, ai, move >>

\* revise(x, y), for any two slots.
CallRevise ==
    /\ pc = "direct"
    /\ \E x, y \in crossword.variables :
          LET r == Revise(domains, x, y)
          IN  /\ domains' = r.domains
              /\ call' = [NoCall EXCEPT !.op = "revise", !.x = x, !.y = y,
                                        !.returned = Bool(r.revise)]
    /\ UNCHANGED << crossword, order, queue, ac3Result, assignment, stack, result, pc >>
    /\ UNCHANGED << steps, game, ai, move >>

\* consistent(assignment), for any partial assignment.  It reads no domain,
\* so it is called on the solver as built.
CallConsistent ==
    /\ pc = "direct"
    /\ call = NoCall
    /\ \E asg \in PartialAssignments, outcome \in {"True", "False", "IndexError"} :
          /\ outcome \in Consistent(asg)
          /\ call' = [NoCall EXCEPT !.op = "consistent", !.asg = asg, !.returned = outcome]
    /\ UNCHANGED << crossword, order, domains, queue, ac3Result, assignment, stack,
                    result, pc >>
    /\ UNCHANGED << steps, game, ai, move >>

CallNext ==
    \/ CallEnforceNodeConsistency
    \/ CallRevise
    \/ CallConsistent

CallSpec == CallInit /\ [][CallNext]_vars

\* -------------------------------------------------------------- Minesweeper

\* The boards played: every height and width up to MaxSide, with any set of
\* cells mined.
Boards ==
    UNION {[height : {h}, width : {w}, mines : SUBSET ((0..(h - 1)) \X (0..(w - 1)))] :
              h \in 1..MaxSide, w \in 1..MaxSide}

\* The cells of the board.
BoardCells == (0..(game.height - 1)) \X (0..(game.width - 1))

\* Minesweeper.nearby_mines(cell): the mines within one row and column of
\* the cell, the cell itself left out.
NearbyMines(cell) ==
    Cardinality({c \in ((cell[1] - 1)..(cell[1] + 1)) \X ((cell[2] - 1)..(cell[2] + 1)) :
                    /\ c # cell
                    /\ 0 <= c[1] /\ c[1] < game.height
                    /\ 0 <= c[2] /\ c[2] < game.width
                    /\ c \in game.mines})

\* A game and the AI built for its board.
MsInit ==
    /\ crossword = [variables |-> {}, words |-> {}, overlaps |-> << >>]
    /\ order = << >>
    /\ domains = << >>
    /\ queue = << >>
    /\ ac3Result = "pending"
    /\ assignment = << >>
    /\ stack = << >>
    /\ result = "pending"
    /\ pc = "minesweeper"
    /\ steps = 0
    /\ call = NoCall
    /\ game \in Boards
    /\ ai = NewAI
    /\ move = NoMove

\* MinesweeperAI.get_neighborhood(cell): one cell from the row above (or, on
\* the top row, the cell to the left) and one from the row below (or, on the
\* bottom row, the cell to the right).
GetNeighborhood(cell) ==
    LET i == cell[1]
        j == cell[2]
        before == IF i - 1 >= 0
                  THEN IF j - 1 >= 0 THEN {<< i - 1, j - 1 >>} ELSE {<< i - 1, j >>}
                  ELSE IF j - 1 >= 0 THEN {<< i, j - 1 >>} ELSE {}
        after == IF i + 1 < game.height
                 THEN IF j + 1 < game.width THEN {<< i + 1, j + 1 >>} ELSE {<< i + 1, j >>}
                 ELSE IF j + 1 < game.width THEN {<< i, j + 1 >>} ELSE {}
    IN  before \cup after

\* Sentence(cells, count)
Sentence(cells, count) == [cells |-> cells, count |-> count]

\* MinesweeperAI.mark_safe on each of the cells: they join safes and leave
\* every sentence, whose count stays.
MarkSafe(a, cells) ==
    [a EXCEPT !.safes = @ \cup cells,
              !.knowledge = [k \in DOMAIN @ |-> [@[k] EXCEPT !.cells = @ \ cells]]]

\* Sentence.known_safes and Sentence.known_mines
KnownSafes(sentence) == IF sentence.count = 0 THEN sentence.cells ELSE {}

KnownMines(sentence) ==
    IF Cardinality(sentence.cells) = sentence.count THEN sentence.cells ELSE {}

\* One pass of mark_cells over the knowledge: the cells of a sentence that
\* knows them all safe or all mines are recorded, and every sentence left
\* without cells is dropped.  The sentences do not hear of each other's cells.
MarkCellsPass(a) ==
    LET kn == a.knowledge
    IN  [a EXCEPT !.safes = @ \cup UNION {KnownSafes(kn[k]) : k \in DOMAIN kn},
                  !.mines = @ \cup UNION {KnownMines(kn[k]) : k \in DOMAIN kn},
                  !.knowledge = SelectSeq(kn, LAMBDA sentence :
                                    /\ sentence.cells # {}
                                    /\ KnownSafes(sentence) = {}
                                    /\ KnownMines(sentence) = {})]

\* MinesweeperAI.mark_cells: passes until one records nothing.
RECURSIVE MarkCells(_)
MarkCells(a) ==
    LET updated == \E k \in DOMAIN a.knowledge :
                       KnownSafes(a.knowledge[k]) # {} \/ KnownMines(a.knowledge[k]) # {}
    IN  IF updated THEN MarkCells(MarkCellsPass(a)) ELSE MarkCellsPass(a)

\* MinesweeperAI.infer_new_sentences on the knowledge kn: for every pair of
\* different sentences with the first inside the second, the difference, if
\* it is not known or inferred already; the pairs are taken in list order.
InferNewSentences(kn) ==
    LET n == Len(kn)
        Range(seq) == {seq[k] : k \in DOMAIN seq}
        new_sentences[p \in 0..(n * n)] ==
            IF p = 0 THEN << >>
            ELSE LET s1 == kn[((p - 1) \div n) + 1]
                     s2 == kn[((p - 1) % n) + 1]
                     new_sentence == Sentence(s2.cells \ s1.cells, s2.count - s1.count)
                 IN  IF /\ s1 # s2
                        /\ s1.cells \subseteq s2.cells
                        /\ new_sentence \notin Range(kn)
                        /\ new_sentence \notin Range(new_sentences[p - 1])
                     THEN Append(new_sentences[p - 1], new_sentence)
                     ELSE new_sentences[p - 1]
    IN  kn \o new_sentences[n * n]

\* add_knowledge(cell, count) for a safe cell of the board and its true
\* count.  The knowledge is a list without bound; calls stop at MaxKnowledge
\* sentences.
AddKnowledge(cell) ==
    /\ pc = "minesweeper"
    /\ cell \in BoardCells \ game.mines
    /\ Len(ai.knowledge) < MaxKnowledge
    /\ LET count == NearbyMines(cell)
           marked == [ai EXCEPT !.moves_made = @ \cup {cell}, !.safes = @ \cup {cell}]
           neighbors == GetNeighborhood(cell)
           unknown_nbg == {n \in neighbors : n \notin marked.safes /\ n \notin marked.mines}
           told == IF unknown_nbg # {}
                   THEN [marked EXCEPT !.knowledge = Append(@, Sentence(unknown_nbg, count))]
                   ELSE marked
           cleared == IF count = 0 THEN MarkSafe(told, neighbors) ELSE told
           settled == MarkCells(cleared)
       IN  ai' = [settled EXCEPT !.knowledge = InferNewSentences(@)]
    /\ move' = NoMove
    /\ UNCHANGED << crossword, order, domains, queue, ac3Result, assignment, stack,
                    result, pc, steps, call, game >>

\* make_random_move(): a cell of the grid it builds that is neither a known
\* mine nor a move made, or None when the grid has none left.
MakeRandomMove ==
    /\ pc = "minesweeper"
    /\ LET all_cells == (0..(game.width - 1)) \X (0..(game.height - 1))
           random_moves == (all_cells \ ai.mines) \ ai.moves_made
       IN  IF random_moves # {}
           THEN \E cell \in random_moves : move' = [returned |-> "cell", cell |-> cell]
           ELSE move' = [returned |-> "None", cell |-> << >>]
    /\ UNCHANGED << crossword, order, domains, queue, ac3Result, assignment, stack,
                    result, pc, steps, call, game, ai >>

MsNext ==
    \/ \E cell \in BoardCells : AddKnowledge(cell)
    \/ MakeRandomMove

MsSpec == MsInit /\ [][MsNext]_vars

\* ------------------------------------------------------------- properties

\* The three conditions of a consistent assignment, on a map s from slots to
\* words: no word twice, every length right, every overlap agreeing.
NoWordTwice(s) == \A x, y \in DOMAIN s : x # y => s[x] # s[y]

LengthsMatch(s) == \A x \in DOMAIN s : Len(s[x]) = x.length

OverlapsAgree(s) ==
    \A x, y \in DOMAIN s :
        (x # y /\ Overlap(x, y) # None) =>
            LET i == Overlap(x, y)[1]
                j == Overlap(x, y)[2]
            IN  i < Len(s[x]) /\ j < Len(s[y]) /\ s[x][i + 1] = s[y][j + 1]

\* The assignment dict as a map.
AsMap(asg) == [var \in Assigned(asg) |-> WordOf(asg, var)]

\* The domains enforce_node_consistency leaves: the pool's words of each
\* slot's length.
RightLength == [var \in crossword.variables |->
                   {word \in crossword.words : Len(word) = var.length}]

\* solve() has returned.
Returned == pc = "done"

\* ac3 has just returned to solve().
Ac3Returned == pc = "backtrack"

\* C1: an assignment solve() returns passes consistent(assignment), and it
\* gives every slot a word of exactly that slot's length.
C1_ReturnedAssignmentIsConsistent ==
    (Returned /\ result = "assignment") =>
        /\ Consistent(assignment) = {"True"}
        /\ \A var \in crossword.variables :
              /\ var \in Assigned(assignment)
              /\ Len(WordOf(assignment, var)) = var.length

\* C1 witness: a three-slot puzzle was solved.
C1_Witness ==
    /\ Returned /\ result = "assignment"
    /\ Cardinality(crossword.variables) = 3

\* Some complete assignment of pool words is consistent.
Solvable ==
    \E s \in [crossword.variables -> crossword.words] :
        NoWordTwice(s) /\ LengthsMatch(s) /\ OverlapsAgree(s)

\* C2: when some complete assignment of pool words is consistent, solve()
\* returns an assignment and not the no-solution value.
C2_ExistingSolutionIsFound ==
    (Returned /\ Solvable) => result = "assignment"

\* C2 witness: a solvable puzzle of two or more slots that ac3 passed was
\* solved.
C2_Witness ==
    /\ Returned /\ Solvable /\ result = "assignment"
    /\ Cardinality(crossword.variables) >= 2
    /\ ac3Result = "True"

\* Node consistency left every slot a candidate.
NoEmptyDomainAfterNode == \A var \in crossword.variables : RightLength[var] # {}

\* The two shapes of solve()'s result.
ResultShape ==
    \/ result = "None"
    \/ /\ result = "assignment"
       /\ Len(assignment) = Cardinality(crossword.variables)
       /\ Assigned(assignment) = crossword.variables

\* C3: solve() ends by returning a complete assignment (one entry per slot)
\* or the no-solution value: no step of it raises, and what it returns is
\* never a partial assignment.
C3_SolveEndsWithAssignmentOrNone ==
    /\ pc # "raised"
    /\ Returned => ResultShape

\* C3 witness: solve() returned the no-solution value for a three-slot puzzle
\* in which node consistency had left every slot a candidate.
C3_Witness ==
    /\ Returned /\ result = "None"
    /\ Cardinality(crossword.variables) = 3
    /\ NoEmptyDomainAfterNode

\* C4: when ac3 has returned false, solve() returns no solution at once:
\* backtrack is not invoked.
C4_Ac3FailureSkipsBacktrack ==
    ac3Result = "False" =>
        /\ pc \notin {"call", "loop", "raised"}
        /\ stack = << >>
        /\ Returned => result = "None"

\* Node consistency has run and left some slot without a candidate.
EmptyAfterNodeConsistency ==
    /\ pc # "enforce_node_consistency"
    /\ \E var \in crossword.variables : RightLength[var] = {}

\* C5: when a slot's domain is empty after node consistency, solve() returns
\* no solution without entering backtrack, whether or not the slot overlaps
\* another.
C5_EmptyDomainSkipsBacktrack ==
    EmptyAfterNodeConsistency =>
        /\ pc \notin {"call", "loop", "raised"}
        /\ stack = << >>
        /\ Returned => result = "None"

\* Every word of every domain has a partner in each overlapping domain.
ArcConsistent ==
    \A x, y \in crossword.variables :
        (x # y /\ Overlap(x, y) # None) =>
            \A wx \in domains[x] : \E wy \in domains[y] :
                LET i == Overlap(x, y)[1]
                    j == Overlap(x, y)[2]
                IN  i < Len(wx) /\ j < Len(wy) /\ wx[i + 1] = wy[j + 1]

NoEmptyDomain == \A var \in crossword.variables : domains[var] # {}

\* C6: ac3 returns True exactly when arc consistency is enforced and no
\* domain is empty; with an empty domain it returns False.
C6_Ac3TrueIffConsistentAndNonEmpty ==
    ac3Result # "pending" =>
        (ac3Result = "True" <=> (ArcConsistent /\ NoEmptyDomain))

\* C7: after ac3, seeded with all arcs, returned true, every word left in a
\* domain agrees with some word of each overlapping slot's domain.
C7_Ac3TrueGivesArcConsistency == ac3Result = "True" => ArcConsistent

\* C7 witness: ac3 returned true with no domain empty, after revise had
\* removed a word from a slot with two neighbours (which puts an arc back on
\* the queue).
C7_Witness ==
    /\ ac3Result = "True" /\ NoEmptyDomain
    /\ \E var \in crossword.variables :
          /\ domains[var] # RightLength[var]
          /\ Cardinality(Neighbors(var)) = 2

\* C8: a complete assignment that takes each slot's word from its domain as
\* it was before ac3 and satisfies every overlap keeps all its words in the
\* domains once ac3 has completed.
C8_Ac3KeepsSolutionWords ==
    Ac3Returned =>
        \A s \in [crossword.variables -> crossword.words] :
            ((\A var \in crossword.variables : s[var] \in RightLength[var])
                /\ OverlapsAgree(s))
            => \A var \in crossword.variables : s[var] \in domains[var]

\* C8 witness: ac3 completed after removing a word, and an assignment that
\* satisfies every overlap exists.
C8_Witness ==
    /\ Ac3Returned
    /\ \E var \in crossword.variables : domains[var] # RightLength[var]
    /\ \E s \in [crossword.variables -> crossword.words] :
          /\ \A var \in crossword.variables : s[var] \in RightLength[var]
          /\ OverlapsAgree(s)

\* C9: no step of solve() adds a word to a domain: each domain after a step
\* is a subset of that domain before it.
C9_DomainsOnlyShrink ==
    [][\A var \in crossword.variables : domains'[var] \subseteq domains[var]]_vars

\* C9 witness: the search has ended after both node consistency and revise
\* removed words from the domain of one slot.
C9_Witness ==
    /\ Returned
    /\ \E var \in crossword.variables :
          /\ RightLength[var] # crossword.words
          /\ domains[var] # RightLength[var]
          /\ domains[var] # {}

\* C10: enforce_node_consistency leaves each slot exactly the words of its
\* previous domain (the pool) that have the slot's length, and applying it
\* again changes nothing.
C10_NodeConsistencyFiltersByLength ==
    /\ pc = "ac3" => domains = RightLength
    /\ pc # "enforce_node_consistency" => NodeConsistent(domains) = domains

\* C10 witness: node consistency has just removed a wrong-length word from a
\* slot and kept a right-length one.
C10_Witness ==
    /\ pc = "ac3"
    /\ \E var \in crossword.variables :
          /\ domains[var] # {}
          /\ domains[var] # crossword.words

\* The words of doms[x] that agree with some word of doms[y] at the offsets
\* (i, j); an offset past the end of a word agrees with nothing.
Supported(doms, x, y, i, j) ==
    {wx \in doms[x] :
        \E wy \in doms[y] : i < Len(wx) /\ j < Len(wy) /\ wx[i + 1] = wy[j + 1]}

\* C11: with overlap(x, y) = (i, j) defined, revise(x, y) leaves domain(x)
\* exactly the words of the old domain(x) that agree with some word of
\* domain(y) at the offsets, and returns true iff it removed a word.
C11_ReviseKeepsSupportedWords ==
    [][(call'.op = "revise" /\ Overlap(call'.x, call'.y) # None) =>
          LET x == call'.x
              y == call'.y
          IN  /\ domains'[x] = Supported(domains, x, y, Overlap(x, y)[1], Overlap(x, y)[2])
              /\ call'.returned = "True" <=> domains'[x] # domains[x]]_vars

\* C11 witness: revise removed a word because the offset lies past the end of
\* every word of the other domain it could pair with, and kept another word.
C11_Witness ==
    /\ call.op = "revise" /\ call.returned = "True"
    /\ domains[call.x] # {}
    /\ \E wy \in domains[call.y] : Len(wy) <= Overlap(call.x, call.y)[2]

\* C12: consistent(assignment) returns true when no word is assigned twice,
\* every word has its slot's length and every pair of assigned neighbours
\* agrees at its overlap, and returns false in every other case.
C12_ConsistentDecidesTheThreeConditions ==
    call.op = "consistent" =>
        call.returned = Bool(/\ NoWordTwice(AsMap(call.asg))
                             /\ LengthsMatch(AsMap(call.asg))
                             /\ OverlapsAgree(AsMap(call.asg)))

\* C20: revise(x, y) changes the domain of no slot but x, and with no overlap
\* between x and y it changes no domain and returns false.
C20_ReviseTouchesOnlyX ==
    [][call'.op = "revise" =>
          /\ \A var \in crossword.variables \ {call'.x} : domains'[var] = domains[var]
          /\ Overlap(call'.x, call'.y) = None =>
                (domains' = domains /\ call'.returned = "False")]_vars

\* C20 witness: revise was called on two different slots that do not overlap
\* and whose domains differ.
C20_Witness ==
    /\ call.op = "revise" /\ call.x # call.y
    /\ Overlap(call.x, call.y) = None
    /\ domains[call.x] # domains[call.y]

\* The call of backtrack that is running, between two values of its loop.
InLoop == pc = "loop" /\ stack # << >>

Top == stack[Len(stack)]

Unassigned == crossword.variables \ Assigned(assignment)

Degree(var) == Cardinality({v \in crossword.variables : v # var /\ Overlap(var, v) # None})

\* C13: with a slot unassigned, select_unassigned_variable returns an
\* unassigned slot of minimal domain size that has, among the unassigned slots
\* of that size, the most neighbours.
C13_SelectsFewestValuesThenMostNeighbours ==
    InLoop =>
        /\ Top.var \in Unassigned
        /\ \A v \in Unassigned :
              /\ Cardinality(domains[Top.var]) <= Cardinality(domains[v])
              /\ Cardinality(domains[v]) = Cardinality(domains[Top.var])
                    => Degree(v) <= Degree(Top.var)

\* C13 witness: the first slot selected by a search tied on domain size with
\* a slot of fewer neighbours, and has a candidate.
C13_Witness ==
    /\ InLoop /\ Len(stack) = 1
    /\ \E v \in Unassigned :
          /\ Cardinality(domains[v]) = Cardinality(domains[Top.var])
          /\ Degree(v) < Degree(Top.var)
    /\ domains[Top.var] # {}

\* The pairs (unassigned neighbour n of var, word wn of n's domain) that are
\* not consistent with var = w.
RuledOut(var, w) ==
    {p \in UNION {{<< n, wn >> : wn \in domains[n]} : n \in Unassigned \ {var}} :
        /\ Overlap(var, p[1]) # None
        /\ LET s == (var :> w) @@ (p[1] :> p[2])
           IN  ~ (NoWordTwice(s) /\ LengthsMatch(s) /\ OverlapsAgree(s))}

\* C14: order_domain_values returns every word of the slot's domain exactly
\* once, in non-decreasing order of the number of (unassigned neighbour,
\* neighbour word) pairs the word is not consistent with.
C14_ValuesOrderedByEliminationCount ==
    InLoop =>
        /\ Len(Top.values) = Cardinality(domains[Top.var])
        /\ {Top.values[k] : k \in DOMAIN Top.values} = domains[Top.var]
        /\ \A a, b \in DOMAIN Top.values :
              a < b => Cardinality(RuledOut(Top.var, Top.values[a]))
                         <= Cardinality(RuledOut(Top.var, Top.values[b]))

\* C14 witness: values of different counts were ordered for a slot that has
\* both an assigned and an unassigned neighbour.
C14_Witness ==
    /\ InLoop
    /\ Neighbors(Top.var) \cap Assigned(assignment) # {}
    /\ Neighbors(Top.var) \cap Unassigned # {}
    /\ \E a, b \in DOMAIN Top.values :
          Cardinality(RuledOut(Top.var, Top.values[a]))
            < Cardinality(RuledOut(Top.var, Top.values[b]))

\* How far the search has come: the loop positions of the active calls, the
\* outermost weighing most, as a number; one more when a call is about to
\* begin.
Rank ==
    LET n == Cardinality(crossword.variables)
        base == Cardinality(crossword.words) + 2
        Pow[e \in 0..n] == IF e = 0 THEN 1 ELSE base * Pow[e - 1]
        Sum[k \in 0..Len(stack)] ==
            IF k = 0 THEN 0 ELSE stack[k].idx * Pow[n - k] + Sum[k - 1]
    IN  2 * Sum[Len(stack)] + (IF pc = "call" THEN 1 ELSE 0)

Searching == pc \in {"call", "loop"}

\* C15: backtrack terminates with a solution or no solution, and its calls
\* never nest deeper than the number of slots: every step of the search
\* either returns a solution or no solution from the outermost call or moves
\* the search strictly forward in an order that is bounded (by the depth and
\* the loop positions), and a search in its loop has a call on the stack.
\* The step count makes a step that repeats a state a step like any other.
C15_BacktrackTerminatesWithinDepth ==
    [][Searching =>
          /\ \/ pc' = "done" /\ result' \in {"None", "assignment"}
             \/ Searching' /\ Rank' > Rank
          /\ Len(stack') <= Cardinality(crossword.variables)
          /\ \A k \in DOMAIN stack' :
                stack'[k].idx <= Cardinality(crossword.words) + 1
          /\ pc' = "loop" => stack' # << >>]_vars

\* C15 witness: the search is as deep as the puzzle has slots, three, after
\* an inner call had returned no solution.
C15_Witness ==
    /\ InLoop /\ Len(stack) = 3
    /\ stack[2].idx > 1

\* C18: in ac3, after revise(x, y) returned true with domain(x) not empty,
\* every arc (z, x) with z a neighbour of x other than y is in the queue
\* before the next arc is popped; after it returned false no arc is added.
C18_Ac3RequeuesNeighbourArcs ==
    [][(pc = "ac3_loop" /\ queue # << >>) =>
          LET x == Head(queue)[1]
              y == Head(queue)[2]
          IN  /\ (domains' # domains /\ domains'[x] # {}) =>
                    /\ pc' = "ac3_loop"
                    /\ \A z \in Neighbors(x) \ {y} :
                          \E m \in DOMAIN queue' : queue'[m] = << z, x >>
              /\ domains' = domains => queue' = Tail(queue)]_vars

\* C18 witness: the queue ends with an arc put back by a revision, an arc
\* that was not among those waiting before.
C18_Witness ==
    /\ pc = "ac3_loop" /\ queue # << >>
    /\ \E var \in crossword.variables :
          /\ domains[var] # RightLength[var]
          /\ domains[var] # {}
          /\ queue[Len(queue)][2] = var
          /\ \A m \in 1..(Len(queue) - 1) : queue[m] # queue[Len(queue)]

\* C19: when a call backtrack(assignment) returns no solution, assignment
\* holds exactly the entries it held when the call began.
C19_FailedCallRestoresAssignment ==
    (InLoop /\ Top.idx > Len(Top.values)) => assignment = Top.entry

\* C19 witness: a call that began with two entries is about to return no
\* solution after trying a value.
C19_Witness ==
    /\ InLoop /\ Top.idx > Len(Top.values)
    /\ Len(Top.entry) = 2
    /\ Top.values # << >>

\* C16: in a game where add_knowledge is only ever told a safe cell and its
\* true count, every sentence the AI knows is true of the board (exactly
\* count of its cells are mines, so the count lies between 0 and the number
\* of cells), every cell in ai.mines is a mine and no cell in ai.safes is one.
C16_KnowledgeIsTrueOfTheBoard ==
    pc = "minesweeper" =>
        /\ \A k \in DOMAIN ai.knowledge :
              LET sentence == ai.knowledge[k]
              IN  /\ Cardinality(sentence.cells \cap game.mines) = sentence.count
                  /\ 0 <= sentence.count
                  /\ sentence.count <= Cardinality(sentence.cells)
        /\ ai.mines \subseteq game.mines
        /\ ai.safes \cap game.mines = {}

\* C17: on a board of any height and width, the cell make_random_move
\* returns is on the board, is not a move made and is not a known mine, and
\* it returns None only when the board has no such cell.
C17_RandomMoveIsOnBoardAndFresh ==
    /\ move.returned = "cell" =>
          /\ 0 <= move.cell[1] /\ move.cell[1] < game.height
          /\ 0 <= move.cell[2] /\ move.cell[2] < game.width
          /\ move.cell \notin ai.moves_made
          /\ move.cell \notin ai.mines
    /\ move.returned = "None" => (BoardCells \ ai.moves_made) \ ai.mines = {}

\* backtrack has been called and has not returned.
InBacktrack == pc \in {"backtrack", "call", "loop"}

\* C21: the search only reads the domains: no step of backtrack, from its
\* call by solve to its return (selecting a slot, ordering its values, testing
\* an assignment, undoing one), changes the domain of any slot, so the domains
\* at its end are the domains at its beginning.
C21_SearchLeavesDomainsAlone ==
    [][InBacktrack => domains' = domains]_vars

\* C21 witness: the search has filled a puzzle of three slots after trying a
\* value it had to take back, and every slot still has more than one word in
\* its domain.
C21_Witness ==
    /\ Returned /\ result = "assignment"
    /\ Len(assignment) = 3
    /\ steps > 7
    /\ \A var \in crossword.variables : Cardinality(domains[var]) > 1

\* The work ac3 has left: the words still in the domains, each weighing more
\* than any number of arcs one revision can put back, and the arcs waiting.
Ac3Rank ==
    LET n == Cardinality(crossword.variables)
        Words[S \in SUBSET crossword.variables] ==
            IF S = {} THEN 0
            ELSE LET var == CHOOSE v \in S : TRUE
                 IN  Cardinality(domains[var]) + Words[S \ {var}]
    IN  (n + 1) * Words[crossword.variables] + Len(queue)

\* C22: ac3 terminates: its loop can always take its next step, and every
\* iteration either ends ac3 (with true when the queue has drained, with
\* false when the revision emptied a domain) or leaves strictly less work,
\* because arcs are only put back by an iteration that took a word out of a
\* domain.
C22_Ac3Terminates ==
    /\ [](pc = "ac3_loop" => ENABLED (Ac3Iterate \/ Ac3ReturnTrue))
    /\ [][pc = "ac3_loop" =>
            /\ \/ /\ pc' = "backtrack"
                  /\ \/ ac3Result' = "True" /\ queue = << >>
                     \/ /\ ac3Result' = "False"
                        /\ \E var \in crossword.variables :
                              domains'[var] = {} /\ domains[var] # {}
               \/ /\ pc' = "ac3_loop"
                  /\ Ac3Rank' < Ac3Rank
                  /\ queue' # Tail(queue) =>
                        \E var \in crossword.variables :
                            /\ domains'[var] # domains[var]
                            /\ domains'[var] \subseteq domains[var]]_vars

\* C22 witness: ac3 has returned false on a puzzle of three slots after a
\* revision that took words out of a domain without emptying it.
C22_Witness ==
    /\ Ac3Returned /\ ac3Result = "False"
    /\ Cardinality(crossword.variables) = 3
    /\ \E var \in crossword.variables :
          domains[var] # RightLength[var] /\ domains[var] # {}

====
